---- MODULE Spec2Model ----
(***************************************************************************)
(* Game sessions, bot-move selection and rating statistics of the chess    *)
(* analyzer server (routes/game.ts, services/stockfishEngine.ts,           *)
(* services/chessEngine.ts, services/dataService.ts).                      *)
(*                                                                         *)
(* The rules oracle (chess.js) is a library outside the repository.  It is *)
(* represented by a bounded abstract game with the same interface: a       *)
(* position is the sequence of moves played from the starting position, a  *)
(* move removes 1..MaxTake units from a pile of StartPile units, the side  *)
(* to move alternates, a move of one unit gives check, an exhausted pile   *)
(* is checkmate or stalemate, and a pile of one unit reached by a move of  *)
(* MaxTake - 1 units is a draw in which moves are still enumerated.        *)
(***************************************************************************)
EXTENDS Integers, Sequences, FiniteSets, TLC

\* ------------------------------------------------------------------ bounds
StartPile == 4
MaxTake == 4
MaxSessions == 1
MaxInFlight == 2
MaxGames == 62
RandRes == 4
MaxAnalyses == 1

\* ------------------------------------------------------- program constants
InitialRating == 1200
MinRating == 800
MaxRating == 2400
WinDelta == 20
DrawDelta == 5
LossDelta == 15
MinInitial == 60
MaxInitial == 3600
MinIncrement == 0
MaxIncrement == 60
RootCap == 10
ReplyCap == 3
TopK == 3
DepthStockfish == 18
DepthAdvanced == 12
DepthIntermediate == 8
DepthBeginner == 4
NegInfinity == -1000000
SampleAnalyses == 2
MateScore == 30000
NoiseSpan == 100
FullDepth == 20
MobilityWeight == 2
PvDepth == 3
PvTop == 3
DepthCap == 20
ConfidenceBase == 85
ConfidenceCap == 98
LegacyNoiseSpan == 100
DefaultDepth == 15

VARIABLES games, stats, enhancedChess, pending, nextId,
          ratingUpdates, resp

vars == <<games, stats, enhancedChess, pending, nextId,
          ratingUpdates, resp>>

Null == "null"
Stamp == "stamped"
GameIds == 1..MaxSessions
Difficulties == {"beginner", "intermediate", "advanced", "stockfish"}
Randoms == 0..(RandRes - 1)

Min2(a, b) == IF a < b THEN a ELSE b
Max2(a, b) == IF a > b THEN a ELSE b

\* Math.floor(Math.random() * n) for the draw r / RandRes in [0, 1)
RandomIndex(r, n) == (r * n) \div RandRes

\* Math.random() < num / 10
RandomBelow(r, tenths) == 10 * r < tenths * RandRes

\* --------------------------------------------------------- rules oracle
RECURSIVE SumSeq(_)
SumSeq(s) == IF s = <<>> THEN 0 ELSE s[1] + SumSeq(Tail(s))

StartingFen == <<>>

Pile(fen) == StartPile - SumSeq(fen)

\* fen.split(' ')[1] and chess.turn()
Turn(fen) == IF Len(fen) % 2 = 0 THEN "w" ELSE "b"

LastMove(fen) == IF fen = <<>> THEN 0 ELSE fen[Len(fen)]

IsCheck(fen) == LastMove(fen) = 1

\* chess.moves({ verbose: true }), in the oracle's enumeration order
Moves(fen) == [i \in 1..Min2(MaxTake, Max2(Pile(fen), 0)) |-> i]

IsCheckmate(fen) == Len(Moves(fen)) = 0 /\ IsCheck(fen)

IsStalemate(fen) == Len(Moves(fen)) = 0 /\ ~IsCheck(fen)

IsDraw(fen) == IsStalemate(fen) \/ (Pile(fen) = 1 /\ LastMove(fen) = MaxTake - 1)

IsGameOver(fen) == IsCheckmate(fen) \/ IsStalemate(fen) \/ IsDraw(fen)

InMoves(fen, move) == \E i \in 1..Len(Moves(fen)) : Moves(fen)[i] = move

\* the position chess.move(move) leaves behind when the move is legal
ApplyMove(fen, move) == Append(fen, move)

\* ------------------------------------------------ StockfishEngine (search)
RECURSIVE SignedSum(_, _, _)
SignedSum(fen, i, value) ==
  IF i > Len(fen) THEN 0
  ELSE (IF i % 2 = 1 THEN value[fen[i]] ELSE -value[fen[i]])
       + SignedSum(fen, i + 1, value)

\* pieceValues of the piece a move captures: a move of two units captures a
\* pawn, a larger move a knight
CaptureValue == [m \in 1..(MaxTake + 1) |-> IF m = 1 THEN 0 ELSE IF m = 2 THEN 100 ELSE 320]

\* bonus of a centre square: a move of one unit occupies one
CentreValue == [m \in 1..(MaxTake + 1) |-> IF m = 1 THEN 20 ELSE 0]

\* material on the board, White positive
EvaluateMaterial(fen) == SignedSum(fen, 1, CaptureValue)

\* centre control, White positive
EvaluatePosition(fen) == SignedSum(fen, 1, CentreValue)

RECURSIVE EvaluateQuick(_, _)
RECURSIVE MaxReply(_, _, _, _)
MaxReply(fen, moves, i, depth) ==
  IF i > Len(moves) THEN NegInfinity
  ELSE Max2(-EvaluateQuick(ApplyMove(fen, moves[i]), depth - 1),
            MaxReply(fen, moves, i + 1, depth))

EvaluateQuick(fen, depth) ==
  IF depth <= 0 \/ IsGameOver(fen)
  THEN EvaluateMaterial(fen) + EvaluatePosition(fen)
  ELSE LET all == Moves(fen)
           moves == SubSeq(all, 1, Min2(ReplyCap, Len(all)))
       IN MaxReply(fen, moves, 1, depth)

NoMove == 0

\* the loop of calculateBestMove: the first candidate with the strictly
\* greatest score among the first RootCap moves
RECURSIVE BestFrom(_, _, _, _, _, _)
BestFrom(fen, moves, i, depth, bestMove, bestScore) ==
  IF i > Len(moves) THEN bestMove
  ELSE LET score == EvaluateQuick(ApplyMove(fen, moves[i]), depth)
       IN IF score > bestScore
          THEN BestFrom(fen, moves, i + 1, depth, moves[i], score)
          ELSE BestFrom(fen, moves, i + 1, depth, bestMove, bestScore)

CalculateBestMove(fen, depth) ==
  LET moves == Moves(fen)
  IN IF Len(moves) = 0 THEN NoMove
     ELSE BestFrom(fen, SubSeq(moves, 1, Min2(Len(moves), RootCap)), 1, depth,
                   moves[1], NegInfinity)

\* ------------------------------------- EnhancedChessEngineService helpers
\* moves.find(m => m.from === best.from && m.to === best.to) || fallback
FindOr(moves, best, fallback) ==
  IF \E i \in 1..Len(moves) : moves[i] = best THEN best ELSE fallback

AnalysisDepth(difficulty) ==
  CASE difficulty = "stockfish" -> DepthStockfish
    [] difficulty = "advanced" -> DepthAdvanced
    [] difficulty = "intermediate" -> DepthIntermediate
    [] OTHER -> DepthBeginner

\* the outcome of the tier's Math.random() < threshold test for the draw r1
BelowThreshold(difficulty, r1) ==
  CASE difficulty = "beginner" -> RandomBelow(r1, 3)
    [] difficulty = "intermediate" -> RandomBelow(r1, 7)
    [] OTHER -> TRUE

\* whether getStockfishMove awaits stockfish.analyzePosition for this tier
\* (beginner draws before it decides to analyse, intermediate after)
AwaitsAnalysis(difficulty, r1) ==
  difficulty = "beginner" => BelowThreshold(difficulty, r1)

\* the switch of getStockfishMove; below is the outcome of the tier's
\* threshold test and r2 the draw of the random index
SelectedMove(fen, difficulty, below, r2) ==
  LET moves == Moves(fen)
      best == CalculateBestMove(fen, AnalysisDepth(difficulty))
      topMoves == SubSeq(moves, 1, Min2(TopK, Len(moves)))
  IN CASE difficulty \in {"stockfish", "advanced"} -> FindOr(moves, best, moves[1])
       [] difficulty = "intermediate" ->
            IF below THEN FindOr(moves, best, topMoves[1])
            ELSE topMoves[RandomIndex(r2, Len(topMoves)) + 1]
       [] difficulty = "beginner" ->
            IF below THEN FindOr(moves, best, moves[1])
            ELSE moves[RandomIndex(r2, Len(moves)) + 1]
       [] OTHER -> moves[1]

\* the draws a call of getStockfishMove can make: none where the tier does
\* not consult Math.random()
Draws1(difficulty) ==
  IF difficulty \in {"beginner", "intermediate"} THEN Randoms ELSE {0}

Draws2(difficulty, r1) ==
  IF difficulty \in {"beginner", "intermediate"} /\ ~BelowThreshold(difficulty, r1)
  THEN Randoms ELSE {0}

\* const move = this.chess.move(selectedMove); return { from, to, fen }
\* on the shared Chess instance: a move that is not legal there throws
BotMoveThrows(chessNow, selected) == ~InMoves(chessNow, selected)

BotMoveResult(chessNow, selected) ==
  [move |-> selected, fen |-> ApplyMove(chessNow, selected)]

\* a validation that accepts every move
IsLegalMoveAny(fen, move) == TRUE

IsLegalMove(fen, move) == InMoves(fen, move)

\* the Chess instance after isLegalMove(fen, move)
ChessAfterIsLegalMove(fen, move) ==
  IF InMoves(fen, move) THEN ApplyMove(fen, move) ELSE fen

\* makeMove of the engine service; made = FALSE stands for its null result
EngineMakeMove(fen, move) ==
  LET f == ApplyMove(fen, move)
  IN [made |-> InMoves(fen, move), move |-> move, fen |-> f,
      isGameOver |-> IsGameOver(f), isCheckmate |-> IsCheckmate(f),
      isStalemate |-> IsStalemate(f)]

\* a status that credits a mate to the side that is mated
GetGameStatusMated(fen) ==
  IF IsCheckmate(fen) THEN (IF Turn(fen) = "w" THEN "1-0" ELSE "0-1")
  ELSE IF IsStalemate(fen) \/ IsDraw(fen) THEN "1/2-1/2"
  ELSE "active"

\* getGameStatus of both engine services
GetGameStatus(fen) ==
  IF IsCheckmate(fen) THEN (IF Turn(fen) = "w" THEN "0-1" ELSE "1-0")
  ELSE IF IsStalemate(fen) \/ IsDraw(fen) THEN "1/2-1/2"
  ELSE "active"

\* ------------------------------------------------------------ DataService
InitStats ==
  [totalAnalyses |-> SampleAnalyses, totalGames |-> 0, gamesWon |-> 0,
   gamesLost |-> 0, gamesDrawn |-> 0, currentRating |-> InitialRating]

\* a clamp that has lost its lower bound
ClampAbove(rating) == Min2(MaxRating, rating)

Clamp(rating) == Max2(MinRating, Min2(MaxRating, rating))

\* a statistics branch that books a drawn game as a loss
SaveGameStatsDrawLost(s, game) ==
  IF game.status = "active" THEN s
  ELSE LET won == \/ game.result = "1-0" /\ game.playerColor = "white"
                  \/ game.result = "0-1" /\ game.playerColor = "black"
       IN [s EXCEPT !.totalGames = @ + 1,
                    !.gamesWon = @ + (IF won THEN 1 ELSE 0),
                    !.gamesLost = @ + (IF won THEN 0 ELSE 1),
                    !.currentRating = Clamp(@ + (IF won THEN WinDelta ELSE -LossDelta))]

\* the statistics branch of saveGame
SaveGameStats(s, game) ==
  IF game.status = "active" THEN s
  ELSE LET won == \/ game.result = "1-0" /\ game.playerColor = "white"
                  \/ game.result = "0-1" /\ game.playerColor = "black"
           drawn == ~won /\ game.result = "1/2-1/2"
           lost == ~won /\ ~drawn
       IN [totalAnalyses |-> s.totalAnalyses,
           totalGames |-> s.totalGames + 1,
           gamesWon |-> s.gamesWon + (IF won THEN 1 ELSE 0),
           gamesDrawn |-> s.gamesDrawn + (IF drawn THEN 1 ELSE 0),
           gamesLost |-> s.gamesLost + (IF lost THEN 1 ELSE 0),
           currentRating |->
             Clamp(s.currentRating + (IF won THEN WinDelta
                                      ELSE IF drawn THEN DrawDelta
                                      ELSE -LossDelta))]

\* a saveGame that updates the statistics whatever the status
SaveGameUnguarded(game) ==
  /\ games' = (game.id :> game) @@ games
  /\ stats' = SaveGameStats(stats, [game EXCEPT !.status = "finished"])
  /\ ratingUpdates' = [ratingUpdates EXCEPT ![game.id] = @ + 1]

\* dataService.saveGame(game)
SaveGame(game) ==
  /\ games' = (game.id :> game) @@ games
  /\ stats' = SaveGameStats(stats, game)
  /\ ratingUpdates' =
       [ratingUpdates EXCEPT ![game.id] =
          @ + (IF game.status = "active" THEN 0 ELSE 1)]

\* calculateRatingChange of the data service
CalculateRatingChange(game) ==
  IF game.status = "active" THEN 0
  ELSE CASE game.result = "1-0" ->
              (IF game.playerColor = "white" THEN WinDelta ELSE -LossDelta)
         [] game.result = "0-1" ->
              (IF game.playerColor = "black" THEN WinDelta ELSE -LossDelta)
         [] game.result = "1/2-1/2" -> DrawDelta
         [] OTHER -> 0

\* the finished games of the store from id downwards: the latest started
\* first, as the sort on startTime leaves them
RECURSIVE FinishedFrom(_, _)
FinishedFrom(store, id) ==
  IF id <= 0 THEN <<>>
  ELSE (IF id \in DOMAIN store /\ store[id].status # "active"
        THEN <<store[id]>> ELSE <<>>) \o FinishedFrom(store, id - 1)

\* dataService.getGameHistory(limit) on a store and its statistics
GetGameHistory(store, s, limit) ==
  LET finished == FinishedFrom(store, MaxSessions)
      sliced == SubSeq(finished, 1, Min2(Max2(limit, 0), Len(finished)))
  IN [i \in 1..Len(sliced) |->
        [id |-> sliced[i].id, game |-> sliced[i],
         playerRating |-> s.currentRating,
         ratingChange |-> CalculateRatingChange(sliced[i])]]

\* the statistics after dataService.deleteGame(id)
DeleteGameStats(store, s, id) ==
  IF id \in DOMAIN store /\ store[id].status # "active"
  THEN [s EXCEPT !.totalGames = Max2(0, @ - 1)]
  ELSE s

\* dataService.deleteGame(id)
DeleteGame(id) ==
  /\ games' = [k \in DOMAIN games \ {id} |-> games[k]]
  /\ stats' = DeleteGameStats(games, stats, id)

\* ------------------------------------------ StockfishEngine (evaluation)
\* the legal positions: everything playable from the starting position
RECURSIVE FensOfLen(_)
FensOfLen(k) ==
  IF k = 0 THEN {StartingFen}
  ELSE UNION {{ApplyMove(f, m) : m \in {n \in 1..MaxTake : InMoves(f, n)}} :
                f \in FensOfLen(k - 1)}

LegalFens == UNION {FensOfLen(k) : k \in 0..StartPile}

\* String.replace(from, to) on the side-to-move field of a FEN
ReplaceTurn(turn, from, to) == IF turn = from THEN to ELSE turn

\* fen.replace(' w ', ' b ').replace(' b ', ' w ') of evaluateMobility
MobilityTurn(turn) == ReplaceTurn(ReplaceTurn(turn, "w", "b"), "b", "w")

\* the position evaluateMobility leaves loaded in the Chess instance it was
\* given: the same pieces with the side to move it wrote into the FEN
LoadedBoard(fen) == [fen |-> fen, turn |-> MobilityTurn(Turn(fen))]

Flipped(board) == board.turn # Turn(board.fen)

\* the oracle on a loaded board. Where the side to move was exchanged the
\* side now to move is not in check (it has just moved), and the number of
\* its moves, otherMoves, is the oracle's to say
BoardMoves(board, otherMoves) ==
  IF Flipped(board) THEN otherMoves ELSE Len(Moves(board.fen))

BoardIsCheckmate(board, otherMoves) ==
  ~Flipped(board) /\ IsCheckmate(board.fen)

BoardIsStalemate(board, otherMoves) ==
  IF Flipped(board) THEN otherMoves = 0 ELSE IsStalemate(board.fen)

BoardIsDraw(board, otherMoves) ==
  \/ BoardIsStalemate(board, otherMoves)
  \/ Pile(board.fen) = 1 /\ LastMove(board.fen) = MaxTake - 1

BoardIsGameOver(board, otherMoves) ==
  BoardIsCheckmate(board, otherMoves) \/ BoardIsDraw(board, otherMoves)

\* the values otherMoves can take for a position
OtherMoves(fen) == IF Flipped(LoadedBoard(fen)) THEN 0..MaxTake ELSE {0}

EvaluateMobility(fen, otherMoves) ==
  (Len(Moves(fen)) - BoardMoves(LoadedBoard(fen), otherMoves)) * MobilityWeight

\* in a legal position no move of the side to move captures a king
EvaluateKingSafety(fen) == 0

\* Math.round(n / d) for d > 0
RoundDiv(n, d) == (2 * n + d) \div (2 * d)

\* Math.round of the integer terms plus the noise
\* (Math.random() - 0.5) * 100 * (1 - Math.min(depth / 20, 1)), for the draw r
NoisyEvaluation(terms, depth, r) ==
  LET den == 2 * RandRes * FullDepth
      num == (2 * r - RandRes) * NoiseSpan * (FullDepth - Min2(depth, FullDepth))
  IN RoundDiv(terms * den + num, den)

\* (hundredths / 100).toFixed(digits): the number shown, in units of
\* 10^-digits, for digits of 1 or 2
ToFixed(hundredths, digits) ==
  [units |-> IF digits = 2 THEN hundredths
             ELSE IF hundredths >= 0 THEN RoundDiv(hundredths, 10)
             ELSE -RoundDiv(-hundredths, 10),
   digits |-> digits]

\* the formatted strings: 'M1' and 'M-1', and [+]x.xx
MateText(n) == [prefix |-> "M", units |-> n, digits |-> 0]

CpText(evaluation, digits) ==
  LET shown == ToFixed(evaluation, digits)
  IN [prefix |-> IF evaluation > 0 THEN "+" ELSE "",
      units |-> shown.units, digits |-> shown.digits]

CalculateStockfishEvaluation(fen, depth, r, otherMoves) ==
  LET terms == EvaluateMaterial(fen) + EvaluatePosition(fen)
               + EvaluateKingSafety(fen) + EvaluateMobility(fen, otherMoves)
      evaluation == NoisyEvaluation(terms, depth, r)
      board == LoadedBoard(fen)
      mateScore == IF board.turn = "w" THEN -MateScore ELSE MateScore
  IN IF BoardIsGameOver(board, otherMoves)
     THEN IF BoardIsCheckmate(board, otherMoves)
          THEN [type |-> "mate",
                value |-> IF mateScore > 0 THEN 1 ELSE -1,
                formatted |-> MateText(IF mateScore > 0 THEN 1 ELSE -1)]
          ELSE [type |-> "cp", value |-> 0, formatted |-> CpText(0, 2)]
     ELSE [type |-> "cp", value |-> evaluation,
           formatted |-> CpText(evaluation, 2)]

\* the loop of calculatePrincipalVariation from the position after the first
\* move; draws holds one Math.random() draw per iteration
RECURSIVE PvTail(_, _, _, _)
PvTail(fen, i, depth, draws) ==
  IF i >= depth \/ Len(Moves(fen)) = 0 THEN <<>>
  ELSE LET moves == Moves(fen)
           nextMove == moves[RandomIndex(draws[i], Min2(PvTop, Len(moves))) + 1]
       IN <<nextMove>> \o PvTail(ApplyMove(fen, nextMove), i + 1, depth, draws)

\* calculatePrincipalVariation where chess.move(bestMove) has not thrown: a
\* move that is not legal leaves the position as it was
CalculatePrincipalVariation(fen, bestMove, depth, draws) ==
  <<bestMove>> \o
    PvTail(IF InMoves(fen, bestMove) THEN ApplyMove(fen, bestMove) ELSE fen,
           1, depth, draws)

\* the result the timer of StockfishEngine.analyzePosition resolves with
StockfishResult(fen, depth, bestMove, r, otherMoves, draws) ==
  [depth |-> depth,
   evaluation |-> CalculateStockfishEvaluation(fen, depth, r, otherMoves),
   bestMove |-> bestMove,
   principalVariation |->
     CalculatePrincipalVariation(fen, bestMove, PvDepth, draws)]

\* chess.move of a move that is not legal throws or returns null, as the
\* library version has it: whether the timer callback can throw
PvCanThrow(fen, bestMove) == ~InMoves(fen, bestMove)

\* ---------------------------------------------------- ChessEngineService
\* piece values of ChessEngineService.evaluatePosition, in pawns
LegacyValue == [m \in 1..(MaxTake + 1) |-> IF m = 1 THEN 0 ELSE IF m = 2 THEN 1 ELSE 3]

\* Math.round((material + moves * 0.1 + Math.random() * 100 - 50) * 100)
LegacyEvaluatePosition(fen, r) ==
  SignedSum(fen, 1, LegacyValue) * 100 + Len(Moves(fen)) * 10
  + RoundDiv(r * LegacyNoiseSpan * 100, RandRes) - (LegacyNoiseSpan \div 2) * 100

\* the moves of a sequence that satisfy a test, in order
RECURSIVE Filter(_, _, _)
Filter(moves, i, keep) ==
  IF i > Len(moves) THEN <<>>
  ELSE (IF moves[i] \in keep THEN <<moves[i]>> ELSE <<>>)
       \o Filter(moves, i + 1, keep)

\* getBestMove: a random capture, else a random centre move, else any move
LegacyBestMove(fen, r) ==
  LET moves == Moves(fen)
      captures == Filter(moves, 1, 2..MaxTake)
      centerMoves == Filter(moves, 1, {1})
      from == IF Len(captures) > 0 THEN captures
              ELSE IF Len(centerMoves) > 0 THEN centerMoves ELSE moves
  IN from[RandomIndex(r, Len(from)) + 1]

\* ChessEngineService.analyzePosition; the position has moves or is over
LegacyAnalysis(fen, depth, r, r2) ==
  IF ~IsGameOver(fen)
  THEN LET evaluation == LegacyEvaluatePosition(fen, r)
           bestMove == LegacyBestMove(fen, r2)
       IN [position |-> [fen |-> fen, turn |-> Turn(fen)],
           evaluation |-> [type |-> "cp", value |-> evaluation,
                           formatted |-> CpText(evaluation, 1)],
           bestMove |-> bestMove,
           principalVariation |-> <<bestMove>>,
           depth |-> depth,
           confidence |-> Min2(95, 70 + RandomIndex(r2, 25))]
  ELSE [position |-> [fen |-> fen, turn |-> Turn(fen)],
        evaluation |->
          IF IsCheckmate(fen)
          THEN [type |-> "mate",
                value |-> IF Turn(fen) = "w" THEN -MateScore ELSE MateScore,
                formatted |-> MateText(IF Turn(fen) = "w" THEN -1 ELSE 1)]
          ELSE [type |-> "cp", value |-> 0, formatted |-> CpText(0, 1)],
        bestMove |-> NoMove,
        principalVariation |-> <<>>,
        depth |-> depth,
        confidence |-> 100]

\* ------------------------------------------------------------ routes/game
Colors == {"white", "black", "random"}

ValidTimeControl == [initial |-> 600, increment |-> 5]

\* request bodies: every valid difficulty and colour with a valid time
\* control, one body for each validation failure, and bodies whose time
\* control lacks a field
SettingsInputs ==
  [timeControl : {ValidTimeControl}, difficulty : Difficulties, color : Colors]
  \cup {[timeControl |-> ValidTimeControl, difficulty |-> "expert", color |-> "white"],
        [timeControl |-> ValidTimeControl, difficulty |-> "beginner", color |-> "green"],
        [timeControl |-> [initial |-> MinInitial - 1, increment |-> 5],
         difficulty |-> "beginner", color |-> "white"],
        [timeControl |-> [initial |-> MaxInitial + 1, increment |-> 5],
         difficulty |-> "beginner", color |-> "white"],
        [timeControl |-> [initial |-> 600, increment |-> MinIncrement - 1],
         difficulty |-> "beginner", color |-> "white"],
        [timeControl |-> [initial |-> 600, increment |-> MaxIncrement + 1],
         difficulty |-> "beginner", color |-> "white"],
        [difficulty |-> "beginner", color |-> "white"],
        [timeControl |-> [increment |-> 5],
         difficulty |-> "beginner", color |-> "white"],
        [timeControl |-> [initial |-> 600],
         difficulty |-> "stockfish", color |-> "black"]}

\* a < b and a > b of JavaScript on a field that may be missing: a
\* comparison with undefined is false
FieldLess(object, field, b) == field \in DOMAIN object /\ object[field] < b

FieldGreater(object, field, b) == field \in DOMAIN object /\ object[field] > b

ValidateGameSettings(settings) ==
  IF {"timeControl", "difficulty", "color"} \ DOMAIN settings # {}
  THEN "Missing required settings"
  ELSE IF settings.difficulty \notin Difficulties THEN "Invalid difficulty level"
  ELSE IF settings.color \notin Colors THEN "Invalid color choice"
  ELSE IF FieldLess(settings.timeControl, "initial", MinInitial)
          \/ FieldGreater(settings.timeControl, "initial", MaxInitial)
       THEN "Initial time must be between 1 and 60 minutes"
  ELSE IF FieldLess(settings.timeControl, "increment", MinIncrement)
          \/ FieldGreater(settings.timeControl, "increment", MaxIncrement)
       THEN "Increment must be between 0 and 60 seconds"
  ELSE Null

\* the outcome of the step just taken: the response it sent (code 0: none
\* yet, the handler awaits), and whether the step resumed an awaiting handler
Response(op, id, move, code, error, resumed) ==
  [op |-> op, id |-> id, move |-> move, code |-> code, ok |-> code = 200,
   error |-> error, resumed |-> resumed]

MoveEntry(move, fen, isPlayerMove) ==
  [move |-> move, fen |-> fen, timestamp |-> Stamp, isPlayerMove |-> isPlayerMove]

NewGame(gameId, playerColor, settings) ==
  [id |-> gameId, playerColor |-> playerColor,
   currentPosition |-> [fen |-> StartingFen, turn |-> "w"],
   moves |-> <<>>, status |-> "active", settings |-> settings,
   startTime |-> Stamp, endTime |-> Null, result |-> Null]

\* a guard that lets every session through
IsActiveAlways(game) == TRUE

\* the guard game.status !== 'active' of makeMove and resignGame
IsActive(game) == game.status = "active"

\* createGame, lines 193-206: the opening bot move is logged
GameAfterOpening(game, botMove) ==
  [game EXCEPT !.moves = Append(@, MoveEntry(botMove.move, botMove.fen, FALSE)),
               !.currentPosition = [fen |-> botMove.fen, turn |-> "b"]]

\* makeMove, lines 274-288: the player's move is logged
GameAfterPlayerMove(game, moveResult) ==
  [game EXCEPT !.moves = Append(@, MoveEntry(moveResult.move, moveResult.fen, TRUE)),
               !.currentPosition = [fen |-> moveResult.fen,
                                    turn |-> Turn(moveResult.fen)]]

\* makeMove, lines 290-295: the player's move ended the game
GameOverAfterPlayerMove(game, moveResult) ==
  [game EXCEPT !.status = IF moveResult.isCheckmate THEN "checkmate"
                          ELSE IF moveResult.isStalemate THEN "stalemate"
                          ELSE "draw",
               !.endTime = Stamp,
               !.result = GetGameStatus(moveResult.fen)]

\* makeMove, lines 309-332: the bot's move is logged and the status re-checked
GameAfterBotMove(game, botMove) ==
  LET logged == [game EXCEPT
                   !.moves = Append(@, MoveEntry(botMove.move, botMove.fen, FALSE)),
                   !.currentPosition = [fen |-> botMove.fen,
                                        turn |-> Turn(botMove.fen)]]
      gameStatus == GetGameStatus(botMove.fen)
  IN IF gameStatus # "active"
     THEN [logged EXCEPT !.status = IF gameStatus = "1/2-1/2" THEN "draw"
                                    ELSE "checkmate",
                         !.endTime = Stamp,
                         !.result = gameStatus]
     ELSE logged

\* a resignation booked as a win of the resigning player
GameResignedAsWin(game) ==
  [game EXCEPT !.status = "resignation",
               !.endTime = Stamp,
               !.result = IF game.playerColor = "white" THEN "1-0" ELSE "0-1"]

\* resignGame, lines 402-405
GameResigned(game) ==
  [game EXCEPT !.status = "resignation",
               !.endTime = Stamp,
               !.result = IF game.playerColor = "white" THEN "0-1" ELSE "1-0"]

Init ==
  /\ games = <<>>
  /\ stats = InitStats
  /\ enhancedChess = StartingFen
  /\ pending = {}
  /\ nextId = 1
  /\ ratingUpdates = [id \in GameIds |-> 0]
  /\ resp = Response("none", 0, NoMove, 200, Null, FALSE)

\* POST /api/game/create up to its response or to the await of the bot's
\* opening move; coin, r1, r2 are the Math.random() draws
CreateGame(settings, coin, r1, r2) ==
  LET validationError == ValidateGameSettings(settings)
      playerColor == IF settings.color = "random"
                     THEN (IF RandomBelow(coin, 5) THEN "white" ELSE "black")
                     ELSE settings.color
      game == NewGame(nextId, playerColor, settings)
      selected == SelectedMove(StartingFen, settings.difficulty,
                               BelowThreshold(settings.difficulty, r1), r2)
      botMove == BotMoveResult(StartingFen, selected)
  IN IF validationError # Null
     THEN /\ resp' = Response("create", 0, NoMove, 400, validationError, FALSE)
          /\ UNCHANGED <<games, stats, enhancedChess, pending, nextId, ratingUpdates>>
     ELSE /\ nextId <= MaxSessions
          /\ nextId' = nextId + 1
          /\ IF playerColor = "white"
             THEN /\ SaveGame(game)
                  /\ resp' = Response("create", game.id, NoMove, 200, Null, FALSE)
                  /\ UNCHANGED <<enhancedChess, pending>>
             ELSE IF AwaitsAnalysis(settings.difficulty, r1)
             THEN /\ Cardinality(pending) < MaxInFlight
                  /\ pending' = pending \cup
                       {[kind |-> "create", id |-> game.id, fen |-> StartingFen,
                         difficulty |-> settings.difficulty, game |-> game]}
                  /\ enhancedChess' = StartingFen
                  /\ resp' = Response("create", game.id, NoMove, 0, Null, FALSE)
                  /\ UNCHANGED <<games, stats, ratingUpdates>>
             ELSE /\ enhancedChess' = botMove.fen
                  /\ SaveGame(GameAfterOpening(game, botMove))
                  /\ resp' = Response("create", game.id, NoMove, 200, Null, FALSE)
                  /\ UNCHANGED pending

\* createGame after stockfish.analyzePosition has resolved
CreateGameResume(p, r1, r2) ==
  LET below == p.difficulty = "beginner" \/ BelowThreshold(p.difficulty, r1)
      selected == SelectedMove(p.fen, p.difficulty, below, r2)
      botMove == BotMoveResult(enhancedChess, selected)
  IN /\ p \in pending
     /\ p.kind = "create"
     /\ pending' = pending \ {p}
     /\ UNCHANGED nextId
     /\ IF BotMoveThrows(enhancedChess, selected)
        THEN /\ resp' = Response("create", p.id, NoMove, 500,
                                 "Failed to create game", TRUE)
             /\ UNCHANGED <<games, stats, enhancedChess, ratingUpdates>>
        ELSE /\ enhancedChess' = botMove.fen
             /\ SaveGame(GameAfterOpening(p.game, botMove))
             /\ resp' = Response("create", p.id, NoMove, 200, Null, TRUE)

\* POST /api/game/move up to its response or to the await of the bot's reply
MakeMove(gameId, move, r1, r2) ==
  IF gameId \notin DOMAIN games
  THEN /\ resp' = Response("move", gameId, move, 404, "Game not found", FALSE)
       /\ UNCHANGED <<games, stats, enhancedChess, pending, nextId, ratingUpdates>>
  ELSE
  LET game == games[gameId]
      fen == game.currentPosition.fen
      moveResult == EngineMakeMove(fen, move)
      moved == GameAfterPlayerMove(game, moveResult)
      difficulty == game.settings.difficulty
      selected == SelectedMove(moveResult.fen, difficulty,
                               BelowThreshold(difficulty, r1), r2)
      botMove == BotMoveResult(moveResult.fen, selected)
  IN IF ~IsActive(game)
     THEN /\ resp' = Response("move", gameId, move, 400, "Game is not active", FALSE)
          /\ UNCHANGED <<games, stats, enhancedChess, pending, nextId, ratingUpdates>>
     ELSE IF ~IsLegalMove(fen, move)
     THEN /\ enhancedChess' = ChessAfterIsLegalMove(fen, move)
          /\ resp' = Response("move", gameId, move, 400, "Illegal move", FALSE)
          /\ UNCHANGED <<games, stats, pending, nextId, ratingUpdates>>
     ELSE IF ~moveResult.made
     THEN /\ enhancedChess' = fen
          /\ resp' = Response("move", gameId, move, 400, "Failed to make move", FALSE)
          /\ UNCHANGED <<games, stats, pending, nextId, ratingUpdates>>
     ELSE IF moveResult.isGameOver
     THEN /\ enhancedChess' = moveResult.fen
          /\ SaveGame(GameOverAfterPlayerMove(moved, moveResult))
          /\ resp' = Response("move", gameId, move, 200, Null, FALSE)
          /\ UNCHANGED <<pending, nextId>>
     ELSE IF Len(Moves(moveResult.fen)) = 0
     THEN /\ enhancedChess' = moveResult.fen
          /\ SaveGame(moved)
          /\ resp' = Response("move", gameId, move, 200, Null, FALSE)
          /\ UNCHANGED <<pending, nextId>>
     ELSE IF AwaitsAnalysis(difficulty, r1)
     THEN /\ Cardinality(pending) < MaxInFlight
          /\ enhancedChess' = moveResult.fen
          /\ games' = [games EXCEPT ![gameId] = moved]
          /\ pending' = pending \cup
               {[kind |-> "move", id |-> gameId, fen |-> moveResult.fen,
                 difficulty |-> difficulty, move |-> move,
                 lenBefore |-> Len(game.moves)]}
          /\ resp' = Response("move", gameId, move, 0, Null, FALSE)
          /\ UNCHANGED <<stats, nextId, ratingUpdates>>
     ELSE /\ enhancedChess' = botMove.fen
          /\ SaveGame(GameAfterBotMove(moved, botMove))
          /\ resp' = Response("move", gameId, move, 200, Null, FALSE)
          /\ UNCHANGED <<pending, nextId>>

\* makeMove after stockfish.analyzePosition has resolved: the game object is
\* the one held by the store (getGame returns the stored reference)
MakeMoveResume(p, r1, r2) ==
  LET below == p.difficulty = "beginner" \/ BelowThreshold(p.difficulty, r1)
      selected == SelectedMove(p.fen, p.difficulty, below, r2)
      botMove == BotMoveResult(enhancedChess, selected)
  IN /\ p \in pending
     /\ p.kind = "move"
     /\ pending' = pending \ {p}
     /\ UNCHANGED nextId
     /\ IF BotMoveThrows(enhancedChess, selected)
        THEN /\ resp' = Response("move", p.id, p.move, 500, "Failed to make move", TRUE)
             /\ UNCHANGED <<games, stats, enhancedChess, ratingUpdates>>
        ELSE /\ enhancedChess' = botMove.fen
             /\ SaveGame(GameAfterBotMove(games[p.id], botMove))
             /\ resp' = Response("move", p.id, p.move, 200, Null, TRUE)

\* POST /api/game/:gameId/resign
ResignGame(gameId) ==
  IF gameId \notin DOMAIN games
  THEN /\ resp' = Response("resign", gameId, NoMove, 404, "Game not found", FALSE)
       /\ UNCHANGED <<games, stats, enhancedChess, pending, nextId, ratingUpdates>>
  ELSE IF ~IsActive(games[gameId])
  THEN /\ resp' = Response("resign", gameId, NoMove, 400, "Game is not active", FALSE)
       /\ UNCHANGED <<games, stats, enhancedChess, pending, nextId, ratingUpdates>>
  ELSE /\ SaveGame(GameResigned(games[gameId]))
       /\ resp' = Response("resign", gameId, NoMove, 200, Null, FALSE)
       /\ UNCHANGED <<enhancedChess, pending, nextId>>

PlayerMoves == 1..MaxTake

CoinDraws(settings) == IF settings.color = "random" THEN Randoms ELSE {0}

GameDifficulty(gameId) ==
  IF gameId \in DOMAIN games THEN games[gameId].settings.difficulty ELSE "none"

\* the draws left to a resumed call: beginner has drawn before the await
ResumeDraws1(p) == IF p.difficulty = "intermediate" THEN Randoms ELSE {0}

ResumeDraws2(p, r1) ==
  IF p.difficulty = "intermediate" /\ ~BelowThreshold(p.difficulty, r1)
  THEN Randoms ELSE {0}

CreateGameStep ==
  \E settings \in SettingsInputs :
    \E coin \in CoinDraws(settings), r1 \in Draws1(settings.difficulty) :
      \E r2 \in Draws2(settings.difficulty, r1) :
        CreateGame(settings, coin, r1, r2)

CreateGameResumeStep ==
  \E p \in {q \in pending : q.kind = "create"} :
    \E r1 \in ResumeDraws1(p) : \E r2 \in ResumeDraws2(p, r1) :
      CreateGameResume(p, r1, r2)

MakeMoveStep ==
  \E gameId \in GameIds, move \in PlayerMoves :
    \E r1 \in Draws1(GameDifficulty(gameId)) :
      \E r2 \in Draws2(GameDifficulty(gameId), r1) :
        MakeMove(gameId, move, r1, r2)

MakeMoveResumeStep ==
  \E p \in {q \in pending : q.kind = "move"} :
    \E r1 \in ResumeDraws1(p) : \E r2 \in ResumeDraws2(p, r1) :
      MakeMoveResume(p, r1, r2)

ResignGameStep == \E gameId \in GameIds : ResignGame(gameId)

Next ==
  \/ CreateGameStep
  \/ CreateGameResumeStep
  \/ MakeMoveStep
  \/ MakeMoveResumeStep
  \/ ResignGameStep

Spec == Init /\ [][Next]_vars

\* requests arrive one at a time: a new request starts only when no earlier
\* one is awaiting its bot move
NextSeq ==
  \/ pending = {} /\ CreateGameStep
  \/ CreateGameResumeStep
  \/ pending = {} /\ MakeMoveStep
  \/ MakeMoveResumeStep
  \/ pending = {} /\ ResignGameStep

SpecSeq == Init /\ [][NextSeq]_vars

\* ------------------------------------------- DataService.saveGame on its own
RatedGameId == 1

\* the finished games a caller can hand to saveGame
FinishedGames ==
  {[NewGame(RatedGameId, c,
            [timeControl |-> ValidTimeControl, difficulty |-> "beginner",
             color |-> c])
      EXCEPT !.status = o[1], !.result = o[2], !.endTime = Stamp] :
     c \in {"white", "black"},
     o \in {<<"checkmate", "1-0">>, <<"checkmate", "0-1">>, <<"draw", "1/2-1/2">>,
            <<"resignation", "1-0">>, <<"resignation", "0-1">>}}

\* one more finished game reaches the store
SaveFinishedGame(game) ==
  /\ stats.totalGames < MaxGames
  /\ games' = (game.id :> game) @@ games
  /\ stats' = SaveGameStats(stats, game)
  /\ resp' = Response("save", game.id, NoMove, 200, Null, FALSE)
  /\ UNCHANGED <<enhancedChess, pending, nextId, ratingUpdates>>

NextRating == \E game \in FinishedGames : SaveFinishedGame(game)

SpecRating == Init /\ [][NextRating]_vars

\* -------------------------------------------------------- routes/analysis
\* isValidFen: the syntactic test of the route
IsValidFen(fen) == \A i \in 1..Len(fen) : fen[i] \in 1..MaxTake

\* request bodies: every legal position and one string that is no FEN, with
\* depths below, inside and above the range the engine is meant for
AnalysisFens == LegalFens \cup {<<MaxTake + 1>>}

AnalysisDepths == {-(ConfidenceBase + 1), 1, PvDepth, 10, DepthCap + 5}

AnalysisResponse(code, error, resumed, outcome, analysis) ==
  [op |-> "analyze", id |-> 0, move |-> NoMove, code |-> code,
   ok |-> code = 200, error |-> error, resumed |-> resumed,
   outcome |-> outcome, analysis |-> analysis]

InFlightAnalyses == {q \in pending : q.kind = "analyze"}

\* POST /api/analysis/position up to its response or to the await of the
\* engine's timer
AnalyzePosition(fen, depth) ==
  IF ~IsValidFen(fen)
  THEN /\ resp' = AnalysisResponse(400, "Invalid FEN string", FALSE, "error", Null)
       /\ UNCHANGED <<games, stats, enhancedChess, pending, nextId, ratingUpdates>>
  ELSE /\ Cardinality(pending) < MaxInFlight
       /\ stats.totalAnalyses + Cardinality(InFlightAnalyses)
            < SampleAnalyses + MaxAnalyses
       /\ enhancedChess' = fen
       /\ pending' = pending \cup
            {[kind |-> "analyze", id |-> 0, fen |-> fen,
              depth |-> Min2(depth, DepthCap)]}
       /\ resp' = AnalysisResponse(0, Null, FALSE, "await", Null)
       /\ UNCHANGED <<games, stats, nextId, ratingUpdates>>

\* the engine's timer fires and the route goes on to its response. Where the
\* timer callback throws, the promise is never resolved and the request
\* never gets a response
AnalyzePositionResume(p, bestMove, r, otherMoves, draws, throws) ==
  LET result == StockfishResult(p.fen, p.depth, bestMove, r, otherMoves, draws)
      analysis ==
        [position |-> [fen |-> p.fen, turn |-> Turn(enhancedChess)],
         evaluation |-> result.evaluation,
         bestMove |-> result.bestMove,
         principalVariation |-> result.principalVariation,
         depth |-> result.depth,
         confidence |-> Min2(ConfidenceCap, ConfidenceBase + p.depth)]
  IN /\ p \in pending
     /\ p.kind = "analyze"
     /\ pending' = pending \ {p}
     /\ UNCHANGED <<games, enhancedChess, nextId, ratingUpdates>>
     /\ IF throws
        THEN /\ resp' = AnalysisResponse(0, Null, TRUE, "hang", Null)
             /\ UNCHANGED stats
        ELSE /\ stats' = [stats EXCEPT !.totalAnalyses = @ + 1]
             /\ resp' = AnalysisResponse(200, Null, TRUE, "result", analysis)

\* a direct call of chessEngine.analyzePosition(fen)
LegacyAnalyzePosition(fen, r, r2) ==
  /\ resp' = [AnalysisResponse(200, Null, FALSE, "result",
                               LegacyAnalysis(fen, DefaultDepth, r, r2))
                EXCEPT !.op = "legacy"]
  /\ UNCHANGED <<games, stats, enhancedChess, pending, nextId, ratingUpdates>>

PvDraws == [1..(PvDepth - 1) -> Randoms]

AnalyzePositionStep ==
  \E fen \in AnalysisFens, depth \in AnalysisDepths : AnalyzePosition(fen, depth)

AnalyzePositionResumeStep ==
  \E p \in InFlightAnalyses :
    LET bestMove == CalculateBestMove(p.fen, p.depth)
    IN \E throws \in (IF PvCanThrow(p.fen, bestMove) THEN BOOLEAN ELSE {FALSE}) :
         \E r \in Randoms, otherMoves \in OtherMoves(p.fen), draws \in PvDraws :
           AnalyzePositionResume(p, bestMove, r, otherMoves, draws, throws)

LegacyAnalyzePositionStep ==
  \E fen \in LegalFens, r \in Randoms, r2 \in Randoms :
    LegacyAnalyzePosition(fen, r, r2)

\* analyses one at a time
NextAnalysis ==
  \/ pending = {} /\ AnalyzePositionStep
  \/ AnalyzePositionResumeStep
  \/ pending = {} /\ LegacyAnalyzePositionStep

SpecAnalysis == Init /\ [][NextAnalysis]_vars

\* an analysis of a position one move into a game
AnalyzeOpeningStep ==
  \E fen \in FensOfLen(1) : AnalyzePosition(fen, DefaultDepth)

\* games being created while positions are analysed
NextCreate ==
  \/ CreateGameStep
  \/ CreateGameResumeStep
  \/ AnalyzeOpeningStep
  \/ AnalyzePositionResumeStep

SpecCreate == Init /\ [][NextCreate]_vars

\* ---------------------------------------------------------- createServer
DefaultLimit == 10
LimitCap == 50

\* a segment of a request path below /api/game: a literal word, or the id a
\* session was created with (no generated id spells a literal word)
Literal(text) == [text |-> text, id |-> 0]
IdSegment(id) == [text |-> "game_", id |-> id]

\* a segment of a route pattern: a word, or a named parameter
Word(text) == [param |-> FALSE, text |-> text]
Parameter(name) == [param |-> TRUE, text |-> name]

\* the game routes in the order createServer registers them
GameRoutes ==
  << [method |-> "POST", pattern |-> <<Word("create")>>, handler |-> "createGame"],
     [method |-> "POST", pattern |-> <<Word("move")>>, handler |-> "makeMove"],
     [method |-> "GET", pattern |-> <<Parameter("gameId")>>, handler |-> "getGame"],
     [method |-> "POST", pattern |-> <<Parameter("gameId"), Word("resign")>>,
      handler |-> "resignGame"],
     [method |-> "GET", pattern |-> <<Word("history")>>, handler |-> "getGameHistory"] >>

\* whether a route pattern matches a request
Matches(route, method, path) ==
  /\ route.method = method
  /\ Len(route.pattern) = Len(path)
  /\ \A i \in 1..Len(path) :
       \/ route.pattern[i].param
       \/ path[i].id = 0 /\ path[i].text = route.pattern[i].text

\* the router: the first registered route that matches answers the request
RECURSIVE FirstMatch(_, _, _)
FirstMatch(method, path, i) ==
  IF i > Len(GameRoutes) THEN "notFound"
  ELSE IF Matches(GameRoutes[i], method, path) THEN GameRoutes[i].handler
  ELSE FirstMatch(method, path, i + 1)

Dispatch(method, path) == FirstMatch(method, path, 1)

\* the response of a GET handler: the handler that answered, the path asked
\* for and the body sent
GetResponse(handler, path, code, error, game, history) ==
  [handler |-> handler, path |-> path, game |-> game, history |-> history]
    @@ Response("get", 0, NoMove, code, error, FALSE)

\* the getGame handler with req.params.gameId = segment
GetGame(path) ==
  LET gameId == path[1].id
  IN /\ resp' = IF gameId \in DOMAIN games
                THEN GetResponse("getGame", path, 200, Null, games[gameId], <<>>)
                ELSE GetResponse("getGame", path, 404, "Game not found", Null, <<>>)
     /\ UNCHANGED <<games, stats, enhancedChess, pending, nextId, ratingUpdates>>

\* the getGameHistory handler; limit = 0 stands for an absent query
GetGameHistoryRoute(path, limit) ==
  LET asked == IF limit = 0 THEN DefaultLimit ELSE limit
  IN /\ resp' = GetResponse("getGameHistory", path, 200, Null, Null,
                            GetGameHistory(games, stats, Min2(asked, LimitCap)))
     /\ UNCHANGED <<games, stats, enhancedChess, pending, nextId, ratingUpdates>>

\* the 404 handler for API routes
NotFound(path) ==
  /\ resp' = GetResponse("notFound", path, 404, "API endpoint not found", Null, <<>>)
  /\ UNCHANGED <<games, stats, enhancedChess, pending, nextId, ratingUpdates>>

\* a GET request below /api/game, answered by the handler the router finds
Get(path, limit) ==
  LET handler == Dispatch("GET", path)
  IN CASE handler = "getGame" -> GetGame(path)
       [] handler = "getGameHistory" -> GetGameHistoryRoute(path, limit)
       [] OTHER -> NotFound(path)

HistoryPath == <<Literal("history")>>

GetPaths ==
  {HistoryPath, <<Literal("history"), Literal("all")>>}
    \cup {<<IdSegment(id)>> : id \in 1..(MaxSessions + 1)}

GetLimits == {0, 1, LimitCap + 1}

GetStep == \E path \in GetPaths, limit \in GetLimits : Get(path, limit)

\* game requests one at a time, and GET requests between them
NextRoutes ==
  \/ NextSeq
  \/ pending = {} /\ GetStep

SpecRoutes == Init /\ [][NextRoutes]_vars

\* ------------------------------------------------- the engine on its own
\* a reply list that is not truncated
RepliesUncapped(moves) == moves

\* moves.slice(0, 3) of evaluateQuick
Replies(moves) == SubSeq(moves, 1, Min2(ReplyCap, Len(moves)))

\* moves.slice(0, Math.min(moves.length, 10)) of calculateBestMove
Candidates(moves) == SubSeq(moves, 1, Min2(Len(moves), RootCap))

\* chess.undo()
Undo(chess) == SubSeq(chess, 1, Len(chess) - 1)

\* evaluateQuick on the Chess instance it is handed, with what a run of it
\* leaves behind: the score, the plies it went down, the largest number of
\* replies it tried at one ply, and the instance as the call leaves it
RECURSIVE QuickTrace(_, _)
RECURSIVE QuickLoop(_, _, _, _)
QuickLoop(moves, i, depth, acc) ==
  IF i > Len(moves) THEN acc
  ELSE LET sub == QuickTrace(ApplyMove(acc.chess, moves[i]), depth - 1)
       IN QuickLoop(moves, i + 1, depth,
                    [score |-> Max2(acc.score, -sub.score),
                     plies |-> Max2(acc.plies, 1 + sub.plies),
                     width |-> Max2(acc.width, sub.width),
                     chess |-> Undo(sub.chess)])

QuickTrace(chess, depth) ==
  IF depth <= 0 \/ IsGameOver(chess)
  THEN [score |-> EvaluateMaterial(chess) + EvaluatePosition(chess),
        plies |-> 0, width |-> 0, chess |-> chess]
  ELSE LET moves == Replies(Moves(chess))
       IN QuickLoop(moves, 1, depth,
                    [score |-> NegInfinity, plies |-> 0, width |-> Len(moves),
                     chess |-> chess])

\* the loop of calculateBestMove: the run of evaluateQuick for each candidate
\* and the instance after the candidate is undone
CandidateTraces(fen, depth) ==
  LET moves == Candidates(Moves(fen))
  IN [i \in 1..Len(moves) |->
        LET trace == QuickTrace(ApplyMove(fen, moves[i]), depth)
        IN [trace EXCEPT !.chess = Undo(@)]]

\* search depths: none, and up to past the end of every game
SearchDepths == 0..(StartPile + 1)

EngineResponse(op, fen, depth) ==
  [fen |-> fen, depth |-> depth] @@ Response(op, 0, NoMove, 200, Null, FALSE)

\* a call of calculateBestMove(fen, depth)
CalculateBestMoveStep ==
  \E fen \in LegalFens, depth \in SearchDepths :
    /\ resp' = [bestMove |-> CalculateBestMove(fen, depth),
                traces |-> CandidateTraces(fen, depth)]
                 @@ EngineResponse("calculateBestMove", fen, depth)
    /\ UNCHANGED <<games, stats, enhancedChess, pending, nextId, ratingUpdates>>

\* a call of evaluateQuick(chess, depth)
EvaluateQuickStep ==
  \E fen \in LegalFens, depth \in SearchDepths :
    /\ resp' = [score |-> EvaluateQuick(fen, depth),
                trace |-> QuickTrace(fen, depth)]
                 @@ EngineResponse("evaluateQuick", fen, depth)
    /\ UNCHANGED <<games, stats, enhancedChess, pending, nextId, ratingUpdates>>

\* a call of getStockfishMove(fen, difficulty) that no other request
\* interleaves with
GetStockfishMoveStep ==
  \E fen \in {f \in LegalFens : Len(Moves(f)) > 0}, difficulty \in Difficulties :
    \E r1 \in Draws1(difficulty) : \E r2 \in Draws2(difficulty, r1) :
      /\ resp' = [difficulty |-> difficulty,
                  selected |-> SelectedMove(fen, difficulty,
                                            BelowThreshold(difficulty, r1), r2)]
                   @@ EngineResponse("getStockfishMove", fen,
                                     AnalysisDepth(difficulty))
      /\ UNCHANGED <<games, stats, enhancedChess, pending, nextId, ratingUpdates>>

\* a call of evaluateMobility(chess); otherMoves is the number of moves the
\* oracle gives the side that is not to move
EvaluateMobilityStep ==
  \E fen \in LegalFens, otherMoves \in 0..MaxTake :
    /\ resp' = [otherMoves |-> otherMoves,
                mobility |-> EvaluateMobility(fen, otherMoves)]
                 @@ EngineResponse("evaluateMobility", fen, 0)
    /\ UNCHANGED <<games, stats, enhancedChess, pending, nextId, ratingUpdates>>

NextEngine ==
  \/ CalculateBestMoveStep
  \/ EvaluateQuickStep
  \/ GetStockfishMoveStep
  \/ EvaluateMobilityStep

SpecEngine == Init /\ [][NextEngine]_vars

\* --------------------------------------------- games finished and deleted
\* a call of dataService.deleteGame(id), for a stored or an unknown id
DeleteGameStep ==
  \E id \in 1..(MaxSessions + 1) :
    /\ DeleteGame(id)
    /\ resp' = Response("delete", id, NoMove,
                        IF id \in DOMAIN games THEN 200 ELSE 404, Null, FALSE)
    /\ UNCHANGED <<enhancedChess, pending, nextId, ratingUpdates>>

\* game requests one at a time, and deletions between them
NextStore ==
  \/ NextSeq
  \/ pending = {} /\ DeleteGameStep

SpecStore == Init /\ [][NextStore]_vars

\* ------------------------------------------------------------ properties
Last(s) == s[Len(s)]

PlayerSide(game) == IF game.playerColor = "white" THEN "w" ELSE "b"

Finished == {id \in DOMAIN games : games[id].status # "active"}

\* the record of the handler the step resumes
Resumed == CHOOSE p \in pending \ pending' : TRUE

\* C1: when the requests on the sessions do not overlap, saveGame has
\* updated the statistics zero times for a session that is absent or active
\* and exactly once for a session that has left active, however many calls
\* followed; totalGames counts exactly the finished sessions.
C1_RatingUpdatedOncePerSession ==
  /\ \A id \in GameIds :
       ratingUpdates[id] = IF id \in Finished THEN 1 ELSE 0
  /\ stats.totalGames = Cardinality(Finished)

\* a finished session, rated once, on which a later call has been rejected
C1_Witness ==
  /\ resp.op \in {"move", "resign"}
  /\ resp.error = "Game is not active"
  /\ resp.id \in Finished
  /\ ratingUpdates[resp.id] = 1
  /\ stats.totalGames = 1

\* C2: overlapping makeMove and resign requests on one session behave as if
\* serialized: no step appends to the log of a session that is not active,
\* no session's statistics update has run more than once, and the log never
\* holds two consecutive entries of the same side.
C2_OverlapSerialized ==
  [][\A id \in DOMAIN games :
       /\ games[id].status # "active" => games'[id].moves = games[id].moves
       /\ ratingUpdates'[id] <= 1
       /\ \A i \in 1..(Len(games'[id].moves) - 1) :
            games'[id].moves[i].isPlayerMove # games'[id].moves[i + 1].isPlayerMove]_vars

\* C3: the current rating stays between 800 and 2400 after any sequence of
\* finished games saved from the initial statistics.
C3_RatingInRange ==
  /\ stats.currentRating >= MinRating
  /\ stats.currentRating <= MaxRating

\* the lower clamp has cut a rating that the deltas alone put below 800
C3_Witness ==
  /\ stats.currentRating = MinRating
  /\ InitialRating + WinDelta * stats.gamesWon + DrawDelta * stats.gamesDrawn
       - LossDelta * stats.gamesLost < MinRating

\* C4: a session's status only changes away from active, and once a session
\* is not active no step changes its status, log, position, result or end
\* time.
C4_TerminalAbsorbing ==
  [][\A id \in DOMAIN games :
       /\ games'[id].status # games[id].status => games[id].status = "active"
       /\ games[id].status # "active" =>
            /\ games'[id].status = games[id].status
            /\ games'[id].moves = games[id].moves
            /\ games'[id].currentPosition = games[id].currentPosition
            /\ games'[id].result = games[id].result
            /\ games'[id].endTime = games[id].endTime]_vars

\* C5: a makeMove call on an active session with a move that is not legal in
\* the session's position answers "Illegal move" without success, and leaves
\* the sessions, the statistics and the awaiting handlers as they were: no
\* log entry, no bot move.
C5_IllegalMoveRejected ==
  [][(/\ resp'.op = "move"
      /\ ~resp'.resumed
      /\ resp'.id \in DOMAIN games
      /\ games[resp'.id].status = "active"
      /\ ~InMoves(games[resp'.id].currentPosition.fen, resp'.move))
     => /\ ~resp'.ok
        /\ resp'.error = "Illegal move"
        /\ games' = games
        /\ stats' = stats
        /\ ratingUpdates' = ratingUpdates
        /\ pending' = pending]_vars

\* an illegal move has been rejected on an active session with a move played
C5_Witness ==
  /\ resp.op = "move"
  /\ resp.error = "Illegal move"
  /\ resp.id \in DOMAIN games
  /\ games[resp.id].status = "active"
  /\ games[resp.id].moves # <<>>
  /\ ~InMoves(games[resp.id].currentPosition.fen, resp.move)

\* C6: a makeMove or resign call on a session that is not active answers
\* "Game is not active" without success and changes nothing.
C6_InactiveRejected ==
  [][(/\ resp'.op \in {"move", "resign"}
      /\ ~resp'.resumed
      /\ resp'.id \in DOMAIN games
      /\ games[resp'.id].status # "active")
     => /\ ~resp'.ok
        /\ resp'.error = "Game is not active"
        /\ games' = games
        /\ stats' = stats
        /\ ratingUpdates' = ratingUpdates
        /\ enhancedChess' = enhancedChess
        /\ pending' = pending]_vars

\* a resign call has been rejected on a session ended by checkmate
C6_Witness ==
  /\ resp.op = "resign"
  /\ resp.error = "Game is not active"
  /\ resp.id \in DOMAIN games
  /\ games[resp.id].status = "checkmate"
  /\ ratingUpdates[resp.id] = 1

\* C7: when a makeMove call has failed after it started, the stored session
\* does not end with the player's move without the bot's reply, and is not
\* active with the bot to move.
C7_NoPartialStateOnFailure ==
  (resp.op = "move" /\ resp.code = 500 /\ resp.id \in DOMAIN games)
  => LET game == games[resp.id]
     IN /\ game.moves = <<>> \/ ~Last(game.moves).isPlayerMove
        /\ ~(game.status = "active" /\ game.currentPosition.turn # PlayerSide(game))

\* C8: every makeMove call that succeeds and leaves the session active has
\* grown the log by exactly two entries, the player's move then the bot's,
\* and leaves the player to move.
C8_TwoEntriesPerMove ==
  [][(/\ resp'.op = "move"
      /\ resp'.code = 200
      /\ games'[resp'.id].status = "active")
     => LET game == games'[resp'.id]
            before == IF resp'.resumed THEN Resumed.lenBefore
                      ELSE Len(games[resp'.id].moves)
        IN /\ Len(game.moves) = before + 2
           /\ game.moves[before + 1].isPlayerMove
           /\ ~game.moves[before + 2].isPlayerMove
           /\ game.currentPosition.turn = PlayerSide(game)]_vars

\* C9: a bot-move computation that has awaited its analysis while other
\* requests ran returns a move that is legal in the position it was called
\* for, with the position and the side to move that follow from applying
\* that move to that position.
C9_ComputationsIndependent ==
  [][\A p \in pending \ pending' :
       /\ resp'.code = 200
       /\ LET game == games'[p.id]
              entry == Last(game.moves)
          IN /\ InMoves(p.fen, entry.move)
             /\ entry.fen = ApplyMove(p.fen, entry.move)
             /\ game.currentPosition.fen = ApplyMove(p.fen, entry.move)
             /\ p.kind = "move" =>
                  game.currentPosition.turn = Turn(ApplyMove(p.fen, entry.move))]_vars

\* the position a getStockfishMove call completed by the step was called for
BotCallFen ==
  IF resp'.resumed THEN Resumed.fen
  ELSE IF resp'.op = "create" THEN StartingFen
  ELSE ApplyMove(games[resp'.id].currentPosition.fen, resp'.move)

\* the step completes a getStockfishMove call on a position with legal moves
BotCallCompletes ==
  \/ resp'.resumed
  \/ /\ resp'.op = "create" /\ resp'.code = 200
     /\ games'[resp'.id].moves # <<>>
  \/ /\ resp'.op = "move" /\ resp'.code = 200
     /\ Len(games'[resp'.id].moves) = Len(games[resp'.id].moves) + 2

\* C10: for every position with legal moves and every tier, whatever the
\* random draws, getStockfishMove returns a move among the legal moves of the
\* position it was called for, and the position reached by applying it.
C10_BotMoveLegal ==
  [][BotCallCompletes
     => /\ resp'.code = 200
        /\ LET entry == Last(games'[resp'.id].moves)
           IN /\ ~entry.isPlayerMove
              /\ InMoves(BotCallFen, entry.move)
              /\ entry.fen = ApplyMove(BotCallFen, entry.move)]_vars

\* the status the rules give a position that ended the game
Verdict(fen) ==
  IF IsCheckmate(fen) THEN "checkmate"
  ELSE IF IsStalemate(fen) THEN "stalemate"
  ELSE "draw"

\* C11: a session ended by a move, the player's or the bot's, has the status
\* of the rules' verdict on its final position (checkmate, stalemate, or
\* draw for any other draw), an end time and the result of that position.
C11_StatusMatchesVerdict ==
  \A id \in DOMAIN games :
    games[id].status \notin {"active", "resignation"}
    => /\ IsGameOver(games[id].currentPosition.fen)
       /\ games[id].status = Verdict(games[id].currentPosition.fen)
       /\ games[id].endTime = Stamp
       /\ games[id].result = GetGameStatus(games[id].currentPosition.fen)

\* whether the stored result is a win of the player's recorded side
PlayerWon(game) ==
  \/ game.result = "1-0" /\ game.playerColor = "white"
  \/ game.result = "0-1" /\ game.playerColor = "black"

\* the rating delta of a finished game
RatingDelta(game) ==
  IF PlayerWon(game) THEN WinDelta
  ELSE IF game.result = "1/2-1/2" THEN DrawDelta
  ELSE -LossDelta

\* C12: saving a finished game moves the rating by +20 for a win of the
\* player's recorded side, +5 for 1/2-1/2 and -15 for a loss and then clamps
\* it to [800, 2400], and increments exactly the matching one of gamesWon,
\* gamesDrawn, gamesLost; the outcome is read from result and playerColor.
C12_RatingDelta ==
  [][resp'.op = "save"
     => LET game == games'[resp'.id]
            unclamped == stats.currentRating + RatingDelta(game)
        IN /\ stats'.currentRating =
                (IF unclamped < MinRating THEN MinRating
                 ELSE IF unclamped > MaxRating THEN MaxRating ELSE unclamped)
           /\ stats'.totalGames = stats.totalGames + 1
           /\ stats'.gamesWon = stats.gamesWon + (IF PlayerWon(game) THEN 1 ELSE 0)
           /\ stats'.gamesDrawn = stats.gamesDrawn
                + (IF ~PlayerWon(game) /\ game.result = "1/2-1/2" THEN 1 ELSE 0)
           /\ stats'.gamesLost = stats.gamesLost
                + (IF ~PlayerWon(game) /\ game.result # "1/2-1/2" THEN 1 ELSE 0)]_vars

\* wins as Black, draws and losses have all been booked
C12_Witness ==
  /\ resp.op = "save"
  /\ games[resp.id].playerColor = "black"
  /\ games[resp.id].result = "0-1"
  /\ stats.gamesWon > 0 /\ stats.gamesDrawn > 0 /\ stats.gamesLost > 0
  /\ stats.currentRating =
       InitialRating + WinDelta * stats.gamesWon + DrawDelta * stats.gamesDrawn
         - LossDelta * stats.gamesLost

\* C13: a successful resign leaves the session in status resignation with
\* the result lost by the player (0-1 for White, 1-0 for Black) and an end
\* time, and runs the session's statistics update once, as a loss.
C13_ResignIsLoss ==
  [][(resp'.op = "resign" /\ resp'.ok)
     => LET game == games'[resp'.id]
        IN /\ games[resp'.id].status = "active"
           /\ game.status = "resignation"
           /\ game.result = (IF game.playerColor = "white" THEN "0-1" ELSE "1-0")
           /\ game.endTime = Stamp
           /\ game.moves = games[resp'.id].moves
           /\ ratingUpdates'[resp'.id] = 1
           /\ stats' = [stats EXCEPT
                          !.totalGames = @ + 1,
                          !.gamesLost = @ + 1,
                          !.currentRating = IF @ - LossDelta < MinRating
                                            THEN MinRating ELSE @ - LossDelta]]_vars

\* the player of the black pieces has resigned after moves were played
C13_Witness ==
  /\ resp.op = "resign" /\ resp.ok
  /\ games[resp.id].playerColor = "black"
  /\ games[resp.id].result = "1-0"
  /\ Len(games[resp.id].moves) > 1
  /\ stats.gamesLost = 1
  /\ stats.currentRating = InitialRating - LossDelta

\* the settings of the sessions created so far, stored or still awaiting the
\* bot's opening move
CreatedSettings ==
  {games[id].settings : id \in DOMAIN games}
  \cup {p.game.settings : p \in {q \in pending : q.kind = "create"}}

\* C17: createGame succeeds only with an initial time in [60, 3600] and an
\* increment in [0, 60]: every session it has created, stored or not yet,
\* carries both fields within those ranges.
C17_TimeControlValidated ==
  \A settings \in CreatedSettings :
    /\ "timeControl" \in DOMAIN settings
    /\ {"initial", "increment"} \subseteq DOMAIN settings.timeControl
    /\ settings.timeControl.initial >= MinInitial
    /\ settings.timeControl.initial <= MaxInitial
    /\ settings.timeControl.increment >= MinIncrement
    /\ settings.timeControl.increment <= MaxIncrement

\* C14: a createGame call that succeeds returns an active session of the
\* requested colour, white or black; its log is empty for a White player
\* and for a Black player holds exactly one entry, a bot move played from
\* the starting position; the player is the side to move in its position.
C14_CreatedGame ==
  [][(resp'.op = "create" /\ resp'.code = 200)
     => LET game == games'[resp'.id]
        IN /\ game.status = "active"
           /\ game.playerColor \in {"white", "black"}
           /\ game.settings.color # "random" => game.playerColor = game.settings.color
           /\ game.playerColor = "white" => game.moves = <<>>
           /\ game.playerColor = "black" =>
                /\ Len(game.moves) = 1
                /\ ~game.moves[1].isPlayerMove
                /\ InMoves(StartingFen, game.moves[1].move)
                /\ game.moves[1].fen = ApplyMove(StartingFen, game.moves[1].move)
           /\ game.currentPosition.fen =
                (IF game.moves = <<>> THEN StartingFen ELSE Last(game.moves).fen)
           /\ game.currentPosition.turn = PlayerSide(game)
           /\ Turn(game.currentPosition.fen) = PlayerSide(game)]_vars

\* the step has answered an analysis request with a result
Analysed == resp.op = "analyze" /\ resp.outcome = "result"

\* C15: the evaluation of an analysed position is a mate exactly when the
\* position is a checkmate, whichever side is to move, is a centipawn value
\* of 0 when the position is a stalemate or another draw, and is a
\* centipawn value otherwise.
C15_EvaluationType ==
  Analysed
  => LET evaluation == resp.analysis.evaluation
         fen == resp.analysis.position.fen
     IN /\ evaluation.type \in {"cp", "mate"}
        /\ evaluation.type = "mate" <=> IsCheckmate(fen)
        /\ (IsGameOver(fen) /\ ~IsCheckmate(fen)) => evaluation.value = 0

\* C16: on every path that builds an evaluation, a mate evaluation is
\* negative and reads 'M-<N>' with White to move, positive and reads 'M<N>'
\* with Black to move; a centipawn evaluation reads value/100 with two
\* decimals and carries '+' exactly when the value is positive.
C16_EvaluationFormat ==
  (resp.op \in {"analyze", "legacy"} /\ resp.outcome = "result")
  => LET evaluation == resp.analysis.evaluation
         fen == resp.analysis.position.fen
     IN /\ evaluation.type = "mate" =>
             /\ evaluation.formatted.prefix = "M"
             /\ Turn(fen) = "w" =>
                  evaluation.value < 0 /\ evaluation.formatted.units < 0
             /\ Turn(fen) = "b" =>
                  evaluation.value > 0 /\ evaluation.formatted.units > 0
        /\ evaluation.type = "cp" =>
             /\ evaluation.formatted.prefix = "+" <=> evaluation.value > 0
             /\ evaluation.formatted.prefix \in {"+", ""}
             /\ evaluation.formatted.digits = 2
             /\ evaluation.formatted.units = evaluation.value

\* C18: for a requested depth of at least 1 the principal variation of an
\* analysis starts with the best move and is no longer than the depth.
C18_PrincipalVariation ==
  (Analysed /\ resp.analysis.depth >= 1)
  => /\ resp.analysis.principalVariation # <<>>
     /\ resp.analysis.principalVariation[1] = resp.analysis.bestMove
     /\ Len(resp.analysis.principalVariation) <= resp.analysis.depth

\* C19: the confidence of an analysis is within 0..100 for every depth the
\* endpoint accepts, and within 70..98 for a depth of 10.
C19_Confidence ==
  Analysed
  => /\ resp.analysis.confidence >= 0
     /\ resp.analysis.confidence <= 100
     /\ resp.analysis.depth = 10 =>
          resp.analysis.confidence >= 70 /\ resp.analysis.confidence <= 98

\* C20: the analysis of a position without legal moves ends with a result
\* or an error, and a result holds no principal variation made of a move
\* that does not exist.
C20_NoLegalMoves ==
  [][\A p \in InFlightAnalyses \ pending' :
       Len(Moves(p.fen)) = 0
       => /\ resp'.outcome \in {"result", "error"}
          /\ resp'.outcome = "result" =>
               \A i \in 1..Len(resp'.analysis.principalVariation) :
                 InMoves(p.fen, resp'.analysis.principalVariation[i])]_vars

\* C21: a GET of game/history is answered by the listing of finished games,
\* and a GET of game/<id> for the id of a stored session is answered by the
\* lookup of that session.
C21_HistoryRoute ==
  resp.op = "get"
  => /\ resp.path = HistoryPath => resp.handler = "getGameHistory"
     /\ (Len(resp.path) = 1 /\ resp.path[1].id \in DOMAIN games)
          => resp.handler = "getGame" /\ resp.game = games[resp.path[1].id]

\* the static evaluation of a position as the side `side` sees it
SideValue(fen, side) ==
  IF side = "w" THEN EvaluateMaterial(fen) + EvaluatePosition(fen)
  ELSE -(EvaluateMaterial(fen) + EvaluatePosition(fen))

\* C22: the best move of the search leads, among all legal moves, to a
\* position with the best evaluation from the mover's perspective, for
\* White and for Black to move; of equally good moves it is the earliest in
\* the oracle's order.
C22_BestMoveIsBest ==
  (resp.op = "calculateBestMove" /\ Len(Moves(resp.fen)) > 0)
  => LET mover == Turn(resp.fen)
         value(m) == SideValue(ApplyMove(resp.fen, m), mover)
     IN /\ InMoves(resp.fen, resp.bestMove)
        /\ \A m \in 1..Len(Moves(resp.fen)) :
             /\ value(resp.bestMove) >= value(Moves(resp.fen)[m])
             /\ Moves(resp.fen)[m] < resp.bestMove
                  => value(resp.bestMove) > value(Moves(resp.fen)[m])

\* negate-and-maximise with the leaf valued by the side to move at the leaf
RECURSIVE Negamax(_, _)
RECURSIVE NegamaxReply(_, _, _, _)
NegamaxReply(fen, moves, i, depth) ==
  IF i > Len(moves) THEN NegInfinity
  ELSE Max2(-Negamax(ApplyMove(fen, moves[i]), depth - 1),
            NegamaxReply(fen, moves, i + 1, depth))

Negamax(fen, depth) ==
  IF depth <= 0 \/ IsGameOver(fen) THEN SideValue(fen, Turn(fen))
  ELSE NegamaxReply(fen, SubSeq(Moves(fen), 1, Min2(ReplyCap, Len(Moves(fen)))),
                    1, depth)

\* C23: the score the deeper search returns for a position is the negated
\* maximum over the replies with the leaf valued by the side to move at the
\* leaf: the value of the position for the side to move in it, at every
\* remaining depth.
C23_SideToMovePerspective ==
  resp.op = "evaluateQuick" => resp.score = Negamax(resp.fen, resp.depth)

\* a run of evaluateQuick from fen at depth stays within its bounds
TraceBounded(trace, fen, depth) ==
  /\ trace.plies <= depth
  /\ trace.width <= ReplyCap
  /\ trace.chess = fen
  /\ trace.score > NegInfinity
  /\ trace.score < -NegInfinity

TopByScore(fen, depth, k) ==
  LET score(m) == EvaluateQuick(ApplyMove(fen, m), depth)
      legal == {Moves(fen)[i] : i \in 1..Len(Moves(fen))}
  IN {m \in legal : Cardinality({n \in legal : score(n) > score(m)}) < k}

\* C25: the intermediate tier returns the search's best move or one of the
\* TopK moves by search score, the beginner tier the best move or a legal
\* move, the advanced and maximum tiers the search's best move.
C25_TierSelection ==
  resp.op = "getStockfishMove"
  => LET best == CalculateBestMove(resp.fen, resp.depth)
     IN /\ InMoves(resp.fen, resp.selected)
        /\ resp.difficulty \in {"stockfish", "advanced"} => resp.selected = best
        /\ resp.difficulty = "intermediate"
             => \/ resp.selected = best
                \/ resp.selected \in TopByScore(resp.fen, resp.depth, TopK)

\* the number of moves the oracle gives a side in the position asked about
SideMoves(side) ==
  IF Turn(resp.fen) = side THEN Len(Moves(resp.fen)) ELSE resp.otherMoves

\* C26: the mobility term is the number of White's legal moves minus the
\* number of Black's, times MobilityWeight, whichever side is to move.
C26_Mobility ==
  resp.op = "evaluateMobility"
  => resp.mobility = (SideMoves("w") - SideMoves("b")) * MobilityWeight

\* the colour that made the move a log entry records
Mover(entry) == IF Turn(entry.fen) = "b" THEN "w" ELSE "b"

\* C27: the move log of a stored session only grows at its end, its entries
\* alternate between the colours starting with White, and an entry is
\* tagged isPlayerMove exactly when the player's colour made it.
C27_LogAlternates ==
  [][/\ \A id \in DOMAIN games \cap DOMAIN games' :
          /\ Len(games[id].moves) <= Len(games'[id].moves)
          /\ SubSeq(games'[id].moves, 1, Len(games[id].moves)) = games[id].moves
     /\ \A id \in DOMAIN games' :
          \A i \in 1..Len(games'[id].moves) :
            LET entry == games'[id].moves[i]
            IN /\ Mover(entry) = (IF i % 2 = 1 THEN "w" ELSE "b")
               /\ entry.isPlayerMove <=> Mover(entry) = PlayerSide(games'[id])]_vars

\* C28: a stored session has a result and an end time exactly when it is
\* not active; checkmate goes with the result naming the side that gave
\* mate, stalemate and draw with 1/2-1/2, resignation with a win of the
\* bot's colour.
C28_ResultMatchesStatus ==
  \A id \in DOMAIN games :
    LET game == games[id]
        botWins == IF game.playerColor = "white" THEN "0-1" ELSE "1-0"
    IN /\ game.status \in {"active", "checkmate", "stalemate", "draw", "resignation"}
       /\ game.status = "active" <=> game.result = Null
       /\ game.status = "active" <=> game.endTime = Null
       /\ game.status = "checkmate"
            => /\ game.moves # <<>>
               /\ IsCheckmate(game.currentPosition.fen)
               /\ game.result = (IF Mover(Last(game.moves)) = "w" THEN "1-0" ELSE "0-1")
       /\ game.status \in {"stalemate", "draw"} => game.result = "1/2-1/2"
       /\ game.status = "resignation" => game.result = botWins

\* a session the bot has ended by giving mate
C28_Witness ==
  \E id \in DOMAIN games :
    /\ games[id].status = "checkmate"
    /\ games[id].moves # <<>>
    /\ ~Last(games[id].moves).isPlayerMove

\* C29: totalGames equals gamesWon + gamesLost + gamesDrawn and equals the
\* number of stored finished sessions, after any sequence of game
\* completions and deleteGame calls.
C29_TotalsAgree ==
  /\ stats.totalGames = stats.gamesWon + stats.gamesLost + stats.gamesDrawn
  /\ stats.totalGames = Cardinality(Finished)

\* C30: the ratingChange getGameHistory reports for a finished session is
\* the change saveGame applied to currentRating when the session finished,
\* also where the rating was held at MinRating or MaxRating.
C30_ReportedRatingChange ==
  [][resp'.op = "save"
     => LET history == GetGameHistory(games', stats', DefaultLimit)
        IN /\ \E i \in 1..Len(history) : history[i].id = resp'.id
           /\ \A i \in 1..Len(history) :
                history[i].id = resp'.id
                => history[i].ratingChange = stats'.currentRating - stats.currentRating]_vars

====
